---- MODULE Spec2Model ----
(***************************************************************************)
(* LibSvmHikIqrIndex (python/smqtk/iqr_index/libsvm_hik.py): the IQR index *)
(* held in _descr_cache / _descr_matrix / _descr2index, rebuilt by         *)
(* build_index and read by rank and count.                                 *)
(*                                                                         *)
(* Spec      the object used by one caller: every method call is one       *)
(*           action, followed by the caller taking the result (Return).    *)
(* SpecConc  one thread calling build_index and one calling rank, with no  *)
(*           lock: the statements of the two calls interleave.             *)
(* SpecPlatt the floating-point arithmetic of the score (line 214) for one *)
(*           index item.                                                   *)
(*                                                                         *)
(* Outside the file and modelled as opaque: DescriptorElement.vector() (a  *)
(* fixed table), libSVM's svm_problem / svm_train (a symbolic model that   *)
(* may fail) and compute_distance_matrix. In Spec and SpecConc a score is   *)
(* symbolic: it records the model and the matrix row it was computed from. *)
(***************************************************************************)
EXTENDS Integers, Sequences, FiniteSets, TLC

\* Longest descriptor sequence given to build_index.
MaxLen == 2
\* Longest pos / neg exemplar sequence given to rank in Spec.
MaxEx == 3

\* Descriptor elements that can be indexed; d1 and d3 carry the same vector.
Descr == {"d1", "d2", "d3"}
\* Descriptor elements that can be given as exemplars.
Exemplars == {"d1", "d2"}
\* Descriptor elements that can be indexed in SpecConc, and the <<pos, neg>>
\* that rank is called with there: no positives, no negatives, one of each.
DescrConc == {"d1", "d2"}
RankArgsConc == {<< <<>>, <<"d1">> >>, << <<"d1">>, <<>> >>, << <<"d1">>, <<"d2">> >>}

\* DescriptorElement.vector() as called at lines 118, 181, 184.
vector(d) == IF d = "d2" THEN <<0, 1>> ELSE <<1, 0>>

SeqsUpTo(S, n) == UNION {[1..k -> S] : k \in 0..n}
Range(s) == {s[k] : k \in 1..Len(s)}
Min(a, b) == IF a <= b THEN a ELSE b

(***************************************************************************)
(* Python values                                                           *)
(***************************************************************************)
\* {} : a dict is a function from its keys.
EmptyDict == <<>>
\* d[k] = v
DictPut(d, k, v) == [x \in (DOMAIN d) \cup {k} |-> IF x = k THEN v ELSE d[x]]

\* A float that is a quotient of two integers, as <<numerator, denominator>>.
RatLeq(a, b) == a[1] * b[2] <= b[1] * a[2]
\* max(a, b) of Python: b only if it is strictly greater.
RatMax(a, b) == IF RatLeq(b, a) THEN a ELSE b

\* The class attribute SVM_TRAIN_PARAMS as written at lines 34-40
\* ('' is the empty sequence, 0.0078125 is 1/128).
SvmTrainParamsLiteral ==
    [k \in {"-q", "-t", "-b", "-c", "-g"} |->
        CASE k = "-q" -> <<>>
          [] k = "-t" -> <<5, 1>>
          [] k = "-b" -> <<1, 1>>
          [] k = "-c" -> <<2, 1>>
          [] k = "-g" -> <<1, 128>>]

VARIABLES
    descr_cache,       \* self._descr_cache
    descr_matrix,      \* self._descr_matrix: [kind, rows]
    descr2index,       \* self._descr2index
    SVM_TRAIN_PARAMS,  \* LibSvmHikIqrIndex.SVM_TRAIN_PARAMS
    pc,                \* Spec: "idle" or "returned"
    frame,             \* Spec: the call that has just run, until Return
    b,                 \* SpecConc: the thread calling build_index
    r,                 \* SpecConc: the thread calling rank
    sc                 \* SpecPlatt: one evaluation of line 214

vars == <<descr_cache, descr_matrix, descr2index, SVM_TRAIN_PARAMS, pc, frame, b, r, sc>>

\* The three attributes of self that make the index.
Self == [cache |-> descr_cache, matrix |-> descr_matrix, d2i |-> descr2index]

(***************************************************************************)
(* __init__                                                                *)
(***************************************************************************)
InitSelf ==
    [cache |-> <<>>, matrix |-> [kind |-> "None", rows |-> <<>>], d2i |-> EmptyDict]

(***************************************************************************)
(* count                                                                   *)
(***************************************************************************)
count(self) == Len(self.cache)

(***************************************************************************)
(* build_index                                                             *)
(***************************************************************************)
\* Mutant of BuildReset: the cache is not emptied, the build appends to it.
BuildReset_KeepCache(self) ==
    [cache |-> self.cache, d2i |-> EmptyDict, matrix |-> [kind |-> "list", rows |-> <<>>]]

\* lines 111-116: the three attributes are rebound to fresh empty containers.
BuildReset(self) ==
    [cache |-> <<>>, d2i |-> EmptyDict, matrix |-> [kind |-> "list", rows |-> <<>>]]

\* Mutant of CacheAppend: the descriptor is put at the front of the cache.
CacheAppend_Prepend(self, d) == [self EXCEPT !.cache = <<d>> \o @]

\* line 119
CacheAppend(self, d) == [self EXCEPT !.cache = Append(@, d)]
\* Mutant of MatrixAppend: a row equal to an earlier row is not stored again.
MatrixAppend_Dedup(self, v) ==
    IF v \in Range(self.matrix.rows) THEN self
    ELSE [self EXCEPT !.matrix.rows = Append(@, v)]

\* line 120
MatrixAppend(self, v) == [self EXCEPT !.matrix.rows = Append(@, v)]
\* Mutant of IndexPut: a vector already in the lookup keeps its first row.
IndexPut_FirstWins(self, v, i) ==
    IF v \in DOMAIN self.d2i THEN self ELSE [self EXCEPT !.d2i = DictPut(@, v, i)]

\* line 121; i counts from 0 (enumerate)
IndexPut(self, v, i) == [self EXCEPT !.d2i = DictPut(@, v, i)]

\* lines 118-121: one pass of the loop, for the i-th descriptor d.
BuildIter(self, i, d) ==
    LET v == vector(d)
    IN  IndexPut(MatrixAppend(CacheAppend(self, d), v), v, i)

\* lines 117-121
RECURSIVE BuildLoop(_, _, _)
BuildLoop(self, descriptors, i) ==
    IF i >= Len(descriptors) THEN self
    ELSE BuildLoop(BuildIter(self, i, descriptors[i + 1]), descriptors, i + 1)

\* line 122: numpy.array(list of rows)
BuildFinish(self) == [self EXCEPT !.matrix.kind = "ndarray"]

\* lines 95-122. No statement raises: an empty iterable runs the loop zero times.
build_index(self, descriptors) ==
    BuildFinish(BuildLoop(BuildReset(self), descriptors, 0))

(***************************************************************************)
(* rank                                                                    *)
(***************************************************************************)
\* Mutant of gen_w1_weight: integer division, num_neg/num_pos without float().
gen_w1_weight_Truncating(num_pos, num_neg) ==
    IF num_pos = 0
    THEN [exc |-> "ZeroDivisionError", val |-> <<>>]
    ELSE [exc |-> "none", val |-> RatMax(<<1, 1>>, <<num_neg \div num_pos, 1>>)]

\* Mutant of gen_w1_weight: no positives are given the weight 1.0 instead of
\* dividing by zero.
gen_w1_weight_Guarded(num_pos, num_neg) ==
    IF num_pos = 0
    THEN [exc |-> "none", val |-> <<1, 1>>]
    ELSE [exc |-> "none", val |-> RatMax(<<1, 1>>, <<num_neg, num_pos>>)]

\* line 81: max(1.0, num_neg/float(num_pos)); the division raises when
\* num_pos is 0.
gen_w1_weight(num_pos, num_neg) ==
    IF num_pos = 0
    THEN [exc |-> "ZeroDivisionError", val |-> <<>>]
    ELSE [exc |-> "none", val |-> RatMax(<<1, 1>>, <<num_neg, num_pos>>)]

\* lines 84-87: the class dict is copied, '-w1' is set on the copy, the
\* copy is rendered as 'key value' items. The rendering is kept as the
\* dict of the items; shared is the class dict after the call.
gen_svm_parameter_string(shared, num_pos, num_neg) ==
    LET w == gen_w1_weight(num_pos, num_neg)
        params == shared
    IN  [exc    |-> w.exc,
         shared |-> shared,
         str    |-> IF w.exc = "none" THEN DictPut(params, "-w1", w.val) ELSE <<>>]

\* lines 177-184
TrainLabels(pos, neg) ==
    [k \in 1..Len(pos) |-> 1] \o [k \in 1..Len(neg) |-> -1]
TrainVectors(pos, neg) ==
    [k \in 1..Len(pos) |-> vector(pos[k])] \o [k \in 1..Len(neg) |-> vector(neg[k])]

\* line 186: svm.svm_problem(train_labels, train_vectors)
svm_problem(labels, vectors) == [y |-> labels, x |-> vectors]
\* line 187: svmutil.svm_train(problem, parameter string): the model is known
\* only as what it was trained from.
svm_train(problem, params) == [problem |-> problem, params |-> params]

\* lines 177-187. ok: whether libSVM's training succeeds.
\* ext lists the libSVM / kernel calls made, in order.
RankTrain(shared, pos, neg, ok) ==
    LET problem == svm_problem(TrainLabels(pos, neg), TrainVectors(pos, neg))
        ps == gen_svm_parameter_string(shared, Len(pos), Len(neg))
    IN  IF ps.exc # "none"
        THEN [exc |-> ps.exc, shared |-> ps.shared, ext |-> <<"svm_problem">>,
              params |-> <<>>, model |-> <<>>]
        ELSE IF ~ok
        THEN [exc |-> "TrainerError", shared |-> ps.shared,
              ext |-> <<"svm_problem", "svm_train">>,
              params |-> ps.str, model |-> <<>>]
        ELSE [exc |-> "none", shared |-> ps.shared,
              ext |-> <<"svm_problem", "svm_train">>,
              params |-> ps.str, model |-> svm_train(problem, ps.str)]

\* lines 204-214 for one row x of the matrix: the score
\* 1/(1 + exp((margin - rho)*probA + probB)), known only as the model and the
\* row it was computed from.
Score(model, x) == [model |-> model, x |-> x]

\* lines 194-214: one score per row of the matrix read at line 204.
\* ok: whether compute_distance_matrix accepts a matrix without rows; it
\* cannot iterate None.
RankProbs(model, matrix, ok) ==
    IF matrix.kind = "None"
    THEN [exc |-> "TypeError", val |-> <<>>]
    ELSE IF Len(matrix.rows) = 0 /\ ~ok
    THEN [exc |-> "MatrixError", val |-> <<>>]
    ELSE [exc |-> "none",
          val |-> [k \in 1..Len(matrix.rows) |-> Score(model, matrix.rows[k])]]

\* Mutant of DictZip: the last pair is left out.
DictZip_DropLast(keys, vals) ==
    LET n == Min(Len(keys), Len(vals)) - 1
    IN  [k \in {keys[j] : j \in 1..n} |->
            vals[CHOOSE j \in 1..n :
                    /\ keys[j] = k
                    /\ \A j2 \in 1..n : keys[j2] = k => j2 <= j]]

\* line 216: dict(zip(keys, vals)): zip stops at the shorter sequence, a key
\* met again replaces its earlier value.
DictZip(keys, vals) ==
    LET n == Min(Len(keys), Len(vals))
    IN  [k \in {keys[j] : j \in 1..n} |->
            vals[CHOOSE j \in 1..n :
                    /\ keys[j] = k
                    /\ \A j2 \in 1..n : keys[j2] = k => j2 <= j]]

\* lines 130-216, the whole call.
rank(self, shared, pos, neg, tok, mok) ==
    LET t == RankTrain(shared, pos, neg, tok)
        p == RankProbs(t.model, self.matrix, mok)
        base == [exc |-> t.exc, shared |-> t.shared, ext |-> t.ext,
                 params |-> t.params, ret |-> <<>>]
    IN  IF t.exc # "none" THEN base
        ELSE IF p.exc # "none"
        THEN [base EXCEPT !.exc = p.exc,
                          !.ext = Append(@, "compute_distance_matrix")]
        ELSE [base EXCEPT !.ext = Append(@, "compute_distance_matrix"),
                          !.ret = DictZip(self.cache, p.val)]

(***************************************************************************)
(* Platt scaling, line 214:                                                *)
(*     probs = 1.0 / (1.0 + numpy.exp((margins - rho) * probA + probB))    *)
(*                                                                         *)
(* numpy computes it in binary floating point (IEEE 754 doubles). The      *)
(* model keeps the rules of that arithmetic (round to nearest, ties to     *)
(* even, gradual underflow, overflow to infinity, inf * 0 = NaN) at a      *)
(* reduced width: FBits significand bits instead of 53 and FExp + 1        *)
(* binades instead of 2046. A finite float is a whole number of units, the *)
(* smallest positive float being 1 unit.                                   *)
(***************************************************************************)
\* Significand bits of the reduced format.
FBits == 3
\* Highest binade of the reduced format, in units. As in doubles, the
\* exponent range is wide against the precision: 1.0 is less than half the
\* spacing of the largest floats, and 1/(largest float) is not zero.
FExp == 8

RECURSIVE Pow(_, _)
Pow(x, k) == IF k = 0 THEN 1 ELSE x * Pow(x, k - 1)
Abs(x) == IF x < 0 THEN -x ELSE x

MantMin == Pow(2, FBits - 1)
MantMax == Pow(2, FBits) - 1
\* The magnitudes of the finite floats, in units.
FMag == {m * Pow(2, k) : m \in 0..MantMax, k \in 0..FExp}
FMax == MantMax * Pow(2, FExp)
\* 1.0, in units.
One == MantMin * Pow(2, FExp \div 2)

FNum(v) == [c |-> "num", v |-> v]
FInf(sign) == [c |-> "inf", v |-> sign]
FNaN == [c |-> "nan", v |-> 0]
Sign(x) == IF x < 0 THEN -1 ELSE 1

\* The significand of a finite magnitude.
Mant(f) ==
    IF f < MantMin THEN f
    ELSE CHOOSE m \in MantMin..MantMax : \E k \in 0..FExp : f = m * Pow(2, k)

\* The magnitude n/d (units, n >= 0, d > 0) rounded to nearest, ties to
\* even; -1 when it rounds beyond the largest finite float.
RoundMag(n, d) ==
    IF 2 * n >= (2 * FMax + Pow(2, FExp)) * d THEN -1
    ELSE IF n >= FMax * d THEN FMax
    ELSE LET lo == CHOOSE f \in FMag :
                      f * d <= n /\ \A g \in FMag : g * d <= n => g <= f
             hi == CHOOSE f \in FMag :
                      f * d >= n /\ \A g \in FMag : g * d >= n => g >= f
         IN  IF 2 * n < (lo + hi) * d THEN lo
             ELSE IF 2 * n > (lo + hi) * d THEN hi
             ELSE IF Mant(lo) % 2 = 0 THEN lo ELSE hi

\* The float nearest to n/d (units, d > 0).
FRound(n, d) ==
    LET mag == RoundMag(Abs(n), d)
    IN  IF mag = -1 THEN FInf(Sign(n)) ELSE FNum(Sign(n) * mag)

FNeg(x) == IF x.c = "nan" THEN x ELSE [x EXCEPT !.v = -@]

\* x + y
FAdd(x, y) ==
    IF x.c = "nan" \/ y.c = "nan" THEN FNaN
    ELSE IF x.c = "inf" /\ y.c = "inf" THEN (IF x.v = y.v THEN x ELSE FNaN)
    ELSE IF x.c = "inf" THEN x
    ELSE IF y.c = "inf" THEN y
    ELSE FRound(x.v + y.v, 1)

\* x - y
FSub(x, y) == FAdd(x, FNeg(y))

\* x * y
FMul(x, y) ==
    IF x.c = "nan" \/ y.c = "nan" THEN FNaN
    ELSE IF x.c = "inf" \/ y.c = "inf"
    THEN (IF x.v = 0 \/ y.v = 0 THEN FNaN ELSE FInf(Sign(x.v) * Sign(y.v)))
    ELSE FRound(x.v * y.v, One)

\* x / y (numpy: a finite non-zero number over zero is an infinity)
FDiv(x, y) ==
    IF x.c = "nan" \/ y.c = "nan" THEN FNaN
    ELSE IF x.c = "inf" /\ y.c = "inf" THEN FNaN
    ELSE IF x.c = "inf" THEN FInf(Sign(x.v) * Sign(y.v))
    ELSE IF y.c = "inf" THEN FNum(0)
    ELSE IF y.v = 0 THEN (IF x.v = 0 THEN FNaN ELSE FInf(Sign(x.v)))
    ELSE FRound(Sign(y.v) * x.v * One, Abs(y.v))

\* x <= y for floats that are not NaN
FLeq(x, y) ==
    IF x.c = "inf" THEN (x.v < 0 \/ (y.c = "inf" /\ y.v > 0))
    ELSE IF y.c = "inf" THEN y.v > 0
    ELSE x.v <= y.v

\* The floats that are not NaN and not negative.
FNonNeg == {FNum(f) : f \in FMag} \cup {FInf(1)}

\* numpy.exp(t): the values the float result can take. exp is not computed;
\* it is held between 2^floor(t) and 3^ceil(t) for t > 0, and between
\* 3^-ceil(-t) and 2^-floor(-t) for t < 0, each rounded to a float. It is
\* +inf from the t where 2^floor(t) overflows and 0 from the t where
\* 2^-floor(-t) is no more than half a unit.
FExpSet(t) ==
    IF t.c = "nan" THEN {FNaN}
    ELSE IF t.c = "inf" THEN (IF t.v > 0 THEN {FInf(1)} ELSE {FNum(0)})
    ELSE IF t.v = 0 THEN {FNum(One)}
    ELSE LET a  == Abs(t.v)
             fl == a \div One
             ce == fl + (IF a % One = 0 THEN 0 ELSE 1)
         IN  IF t.v > 0
             THEN IF fl >= FExp THEN {FInf(1)}
                  ELSE {e \in FNonNeg :
                          /\ FLeq(FRound(Pow(2, fl) * One, 1), e)
                          /\ FLeq(e, FRound(Pow(3, ce) * One, 1))}
             ELSE IF fl >= FBits + FExp \div 2 THEN {FNum(0)}
                  ELSE {e \in FNonNeg :
                          /\ FLeq(FRound(One, Pow(3, ce)), e)
                          /\ FLeq(e, FRound(One, Pow(2, fl)))}

\* The exponent argument of line 214: (margin - rho) * probA + probB
PlattArg(margin, rho, probA, probB) ==
    FAdd(FMul(FSub(margin, rho), probA), probB)

\* Mutant of PlattProb: the exponential is subtracted from 1.0.
PlattProb_Minus(e) == FDiv(FNum(One), FSub(FNum(One), e))

\* The score of line 214 from the exponential e: 1.0 / (1.0 + e)
PlattProb(e) == FDiv(FNum(One), FAdd(FNum(One), e))

(***************************************************************************)
(* Spec: one caller, whole calls                                           *)
(***************************************************************************)
NoFrame ==
    [op |-> "none", ds |-> <<>>, prior |-> <<>>, pos |-> <<>>, neg |-> <<>>,
     exc |-> "none", ext |-> <<>>, params |-> <<>>, ret |-> <<>>, len |-> 0]

IdleB == [pc |-> "idle", ds |-> <<>>, i |-> 0]
IdleR == [pc |-> "idle", pos |-> <<>>, neg |-> <<>>, exc |-> "none",
          model |-> <<>>, probs |-> <<>>, ret |-> <<>>,
          overlap |-> FALSE, snap |-> <<>>]

IdleSc == [pc |-> "none", margin |-> FNum(0), rho |-> FNum(0), probA |-> FNum(0),
           probB |-> FNum(0), t |-> FNum(0), e |-> FNum(0), p |-> FNum(0)]

Init ==
    /\ descr_cache = InitSelf.cache
    /\ descr_matrix = InitSelf.matrix
    /\ descr2index = InitSelf.d2i
    /\ SVM_TRAIN_PARAMS = SvmTrainParamsLiteral
    /\ pc = "idle"
    /\ frame = NoFrame
    /\ b = IdleB
    /\ r = IdleR
    /\ sc = IdleSc

\* build_index(descriptors), lines 95-122
BuildIndex(descriptors) ==
    /\ pc = "idle"
    /\ LET new == build_index(Self, descriptors)
       IN  /\ descr_cache' = new.cache
           /\ descr_matrix' = new.matrix
           /\ descr2index' = new.d2i
    /\ frame' = [NoFrame EXCEPT !.op = "build_index", !.ds = descriptors,
                                !.prior = descr_cache]
    /\ pc' = "returned"
    /\ UNCHANGED <<SVM_TRAIN_PARAMS, b, r, sc>>

\* Mutant of Rank: the positive exemplars are appended to the cache.
Rank_AppendsPos(pos, neg) ==
    /\ pc = "idle"
    /\ \E tok \in BOOLEAN, mok \in BOOLEAN :
          LET out == rank(Self, SVM_TRAIN_PARAMS, pos, neg, tok, mok)
          IN  /\ frame' = [NoFrame EXCEPT !.op = "rank", !.pos = pos, !.neg = neg,
                                          !.exc = out.exc, !.ext = out.ext,
                                          !.params = out.params, !.ret = out.ret]
              /\ SVM_TRAIN_PARAMS' = out.shared
    /\ pc' = "returned"
    /\ descr_cache' = descr_cache \o pos
    /\ UNCHANGED <<descr_matrix, descr2index, b, r, sc>>

\* rank(pos, neg), lines 130-216
Rank(pos, neg) ==
    /\ pc = "idle"
    /\ \E tok \in BOOLEAN, mok \in BOOLEAN :
          LET out == rank(Self, SVM_TRAIN_PARAMS, pos, neg, tok, mok)
          IN  /\ frame' = [NoFrame EXCEPT !.op = "rank", !.pos = pos, !.neg = neg,
                                          !.exc = out.exc, !.ext = out.ext,
                                          !.params = out.params, !.ret = out.ret]
              /\ SVM_TRAIN_PARAMS' = out.shared
    /\ pc' = "returned"
    /\ UNCHANGED <<descr_cache, descr_matrix, descr2index, b, r, sc>>

\* count(), lines 92-93
Count ==
    /\ pc = "idle"
    /\ frame' = [NoFrame EXCEPT !.op = "count", !.len = count(Self)]
    /\ pc' = "returned"
    /\ UNCHANGED <<descr_cache, descr_matrix, descr2index, SVM_TRAIN_PARAMS, b, r, sc>>

\* The caller has the value or the exception; the locals of the call are gone.
Return ==
    /\ pc = "returned"
    /\ pc' = "idle"
    /\ frame' = NoFrame
    /\ UNCHANGED <<descr_cache, descr_matrix, descr2index, SVM_TRAIN_PARAMS, b, r, sc>>

Next ==
    \/ \E ds \in SeqsUpTo(Descr, MaxLen) : BuildIndex(ds)
    \/ \E pos \in SeqsUpTo(Exemplars, MaxEx), neg \in SeqsUpTo(Exemplars, MaxEx) :
          Rank(pos, neg)
    \/ Count
    \/ Return

Spec == Init /\ [][Next]_vars

(***************************************************************************)
(* Properties of Spec                                                      *)
(***************************************************************************)
BuildReturned == pc = "returned" /\ frame.op = "build_index"
RankReturned == pc = "returned" /\ frame.op = "rank"
Exemplar(f) == Range(f.pos) \cup Range(f.neg)

\* C1: when build_index(ds) has completed, count() is the number of
\* descriptors in ds, duplicates included, and the cache is ds element for
\* element: nothing of the index before the call is left.
C1_BuildReplaces ==
    BuildReturned =>
        /\ count(Self) = Len(frame.ds)
        /\ descr_cache = frame.ds

\* A rebuild of a non-empty index with a sequence that repeats a descriptor
\* and shares none with the index before.
C1_Witness ==
    /\ BuildReturned
    /\ Len(frame.prior) > 0
    /\ Len(frame.ds) >= 2
    /\ frame.ds[1] = frame.ds[2]
    /\ Range(frame.prior) \cap Range(frame.ds) = {}

\* C2 as stated: a rank call that returns gives a mapping whose key set is
\* the identity set of the index and whose size is count(), whatever the
\* index holds, with no entry for an exemplar that is not in the index.
C2_Original ==
    (RankReturned /\ frame.exc = "none") =>
        /\ DOMAIN frame.ret = Range(descr_cache)
        /\ Cardinality(DOMAIN frame.ret) = count(Self)
        /\ \A e \in Exemplar(frame) : e \notin Range(descr_cache) => e \notin DOMAIN frame.ret

\* C2 amended: a rank call that returns gives a mapping whose key set is
\* the identity set of the index, with no entry for an exemplar that is not
\* in the index; its size is the number of distinct identities in the index,
\* which is count() exactly when no identity is indexed twice and less
\* otherwise.
C2_KeysAreIndexIdentities ==
    (RankReturned /\ frame.exc = "none") =>
        /\ DOMAIN frame.ret = Range(descr_cache)
        /\ Cardinality(DOMAIN frame.ret) = Cardinality(Range(descr_cache))
        /\ Cardinality(DOMAIN frame.ret) <= count(Self)
        /\ (Cardinality(DOMAIN frame.ret) = count(Self)) <=>
              (\A j, k \in 1..Len(descr_cache) : descr_cache[j] = descr_cache[k] => j = k)
        /\ \A e \in Exemplar(frame) : e \notin Range(descr_cache) => e \notin DOMAIN frame.ret

\* rank has returned a mapping for an index that holds a descriptor twice,
\* with an exemplar that is not in the index.
C2_Witness ==
    /\ RankReturned
    /\ frame.exc = "none"
    /\ Len(descr_cache) >= 2
    /\ descr_cache[1] = descr_cache[2]
    /\ \E e \in Exemplar(frame) : e \notin Range(descr_cache)

\* C3: build_index given an empty sequence fails with an error and leaves
\* the index as it was.
C3_EmptyBuildFails ==
    (BuildReturned /\ frame.ds = <<>>) =>
        /\ frame.exc # "none"
        /\ descr_cache = frame.prior

\* C4 as stated: rank with an empty pos fails, and before the failure no svm
\* problem is constructed and no training call is made.
C4_Original ==
    (RankReturned /\ frame.pos = <<>>) =>
        /\ frame.exc # "none"
        /\ "svm_problem" \notin Range(frame.ext)
        /\ "svm_train" \notin Range(frame.ext)

\* C4 amended: rank with an empty pos fails (the ZeroDivisionError of the
\* weight computation) and returns no mapping; the failure is raised before
\* the training call is made, but after the svm problem has been
\* constructed.
C4_EmptyPosFailsBeforeTraining ==
    (RankReturned /\ frame.pos = <<>>) =>
        /\ frame.exc = "ZeroDivisionError"
        /\ frame.ret = <<>>
        /\ frame.ext = <<"svm_problem">>

\* rank was called with no positive and some negative exemplars on a built,
\* non-empty index.
C4_Witness ==
    /\ RankReturned
    /\ frame.pos = <<>>
    /\ Len(frame.neg) > 0
    /\ Len(descr_cache) > 0

\* C5: a rank call, whether it returns or fails, leaves the descriptor cache,
\* the descriptor matrix and the reverse lookup as they were, and so count().
C5_RankReadOnly ==
    [][(pc = "idle" /\ pc' = "returned" /\ frame'.op = "rank") =>
          /\ descr_cache' = descr_cache
          /\ descr_matrix' = descr_matrix
          /\ descr2index' = descr2index
          /\ Len(descr_cache') = Len(descr_cache)]_vars

\* rank has returned a mapping for a built, non-empty index.
C5_Witness ==
    /\ RankReturned
    /\ frame.exc = "none"
    /\ Len(frame.pos) > 0
    /\ Len(descr_cache) > 0
    /\ descr_matrix.kind = "ndarray"

\* The 0-based position of the last descriptor of ds whose vector is v.
LastRowOf(ds, v) ==
    (CHOOSE j \in 1..Len(ds) :
        /\ vector(ds[j]) = v
        /\ \A k \in 1..Len(ds) : vector(ds[k]) = v => k <= j) - 1

\* C7: after build_index(ds) the reverse lookup has one entry per distinct
\* vector of ds, each mapping to the row of the last descriptor of ds with
\* that vector; the cache still holds every descriptor, so the lookup has at
\* most count() entries.
C7_LastInsertedWins ==
    BuildReturned =>
        /\ DOMAIN descr2index = {vector(d) : d \in Range(frame.ds)}
        /\ \A v \in DOMAIN descr2index : descr2index[v] = LastRowOf(frame.ds, v)
        /\ Len(descr_cache) = Len(frame.ds)
        /\ Cardinality(DOMAIN descr2index) <= count(Self)

\* build_index was given two different descriptors with the same vector.
C7_Witness ==
    /\ BuildReturned
    /\ \E j, k \in 1..Len(frame.ds) :
          /\ j < k
          /\ frame.ds[j] # frame.ds[k]
          /\ vector(frame.ds[j]) = vector(frame.ds[k])
          /\ descr2index[vector(frame.ds[j])] = k - 1
    /\ Cardinality(DOMAIN descr2index) < count(Self)

\* C8: for a rank call with at least one positive exemplar the weight '-w1'
\* of the parameter string is max(1.0, |neg|/|pos|) by true division: never
\* below 1, exactly 1 when |neg| <= |pos|, |neg|/|pos| otherwise, and no
\* smaller than it would be with more positives; the other parameters are
\* the class constants, and the class constants are never altered.
C8_PositiveClassWeight ==
    /\ SVM_TRAIN_PARAMS = SvmTrainParamsLiteral
    /\ (RankReturned /\ Len(frame.pos) >= 1) =>
          LET np == Len(frame.pos)
              nn == Len(frame.neg)
              w  == frame.params["-w1"]
          IN  /\ DOMAIN frame.params = DOMAIN SvmTrainParamsLiteral \cup {"-w1"}
              /\ \A k \in DOMAIN SvmTrainParamsLiteral :
                    frame.params[k] = SvmTrainParamsLiteral[k]
              /\ w[2] > 0
              /\ w[1] >= w[2]
              /\ nn <= np => w = <<1, 1>>
              /\ nn > np => w[1] * np = nn * w[2]
              /\ \A p \in np..MaxEx : RatLeq(gen_w1_weight(p, nn).val, w)

\* rank was called with fewer positives than negatives and a quotient that
\* is not a whole number.
C8_Witness ==
    /\ RankReturned
    /\ Len(frame.pos) = 2
    /\ Len(frame.neg) = 3
    /\ "svm_train" \in Range(frame.ext)
    /\ frame.params["-w1"] = <<3, 2>>

\* C10: once build_index has completed, in every later state the matrix has
\* count() rows, row i is the vector of the i-th cached descriptor, and
\* every entry v -> i of the reverse lookup has 0 <= i < count() and row i
\* equal to v.
C10_SnapshotAgrees ==
    descr_matrix.kind = "ndarray" =>
        /\ Len(descr_matrix.rows) = count(Self)
        /\ \A k \in 1..Len(descr_cache) : descr_matrix.rows[k] = vector(descr_cache[k])
        /\ \A v \in DOMAIN descr2index :
              /\ 0 <= descr2index[v]
              /\ descr2index[v] < count(Self)
              /\ descr_matrix.rows[descr2index[v] + 1] = v

\* A rank call has returned on an index built from two descriptors with
\* equal vectors.
C10_Witness ==
    /\ RankReturned
    /\ descr_matrix.kind = "ndarray"
    /\ Len(descr_cache) >= 2
    /\ vector(descr_cache[1]) = vector(descr_cache[2])
    /\ Cardinality(DOMAIN descr2index) = 1

(***************************************************************************)
(* SpecConc: build_index and rank in two threads, no lock                  *)
(*                                                                         *)
(* A step is one statement that reads or writes an attribute of self; the  *)
(* statements on locals between two such statements belong to the step     *)
(* before them. rank reads self._descr_matrix at line 204 and              *)
(* self._descr_cache at line 216; the rows are taken as they are at line   *)
(* 204.                                                                    *)
(*                                                                         *)
(* r.overlap and r.snap are history: whether a build_index call was under  *)
(* way at some time in the rank call, and the cache when rank was entered. *)
(***************************************************************************)
InFlight == r.pc \in {"l204", "l216"}
Overlapped == IF InFlight THEN [r EXCEPT !.overlap = TRUE] ELSE r

\* build_index(descriptors) is entered.
B_Call(descriptors) ==
    /\ b.pc = "idle"
    /\ b' = [pc |-> "l111", ds |-> descriptors, i |-> 0]
    /\ r' = Overlapped
    /\ UNCHANGED <<descr_cache, descr_matrix, descr2index, SVM_TRAIN_PARAMS, pc, frame, sc>>

\* line 111: self._descr_cache = []
B_l111 ==
    /\ b.pc = "l111"
    /\ descr_cache' = BuildReset(Self).cache
    /\ b' = [b EXCEPT !.pc = "l114"]
    /\ r' = Overlapped
    /\ UNCHANGED <<descr_matrix, descr2index, SVM_TRAIN_PARAMS, pc, frame, sc>>

\* line 114: self._descr2index = {}
B_l114 ==
    /\ b.pc = "l114"
    /\ descr2index' = BuildReset(Self).d2i
    /\ b' = [b EXCEPT !.pc = "l116"]
    /\ r' = Overlapped
    /\ UNCHANGED <<descr_cache, descr_matrix, SVM_TRAIN_PARAMS, pc, frame, sc>>

\* line 116: self._descr_matrix = [], then the loop head of line 117
B_l116 ==
    /\ b.pc = "l116"
    /\ descr_matrix' = BuildReset(Self).matrix
    /\ b' = [b EXCEPT !.pc = IF b.i < Len(b.ds) THEN "l119" ELSE "l122"]
    /\ r' = Overlapped
    /\ UNCHANGED <<descr_cache, descr2index, SVM_TRAIN_PARAMS, pc, frame, sc>>

\* lines 118-119: v = d.vector(); self._descr_cache.append(d)
B_l119 ==
    /\ b.pc = "l119"
    /\ descr_cache' = CacheAppend(Self, b.ds[b.i + 1]).cache
    /\ b' = [b EXCEPT !.pc = "l120"]
    /\ r' = Overlapped
    /\ UNCHANGED <<descr_matrix, descr2index, SVM_TRAIN_PARAMS, pc, frame, sc>>

\* line 120: self._descr_matrix.append(v)
B_l120 ==
    /\ b.pc = "l120"
    /\ descr_matrix' = MatrixAppend(Self, vector(b.ds[b.i + 1])).matrix
    /\ b' = [b EXCEPT !.pc = "l121"]
    /\ r' = Overlapped
    /\ UNCHANGED <<descr_cache, descr2index, SVM_TRAIN_PARAMS, pc, frame, sc>>

\* line 121: self._descr2index[tuple(v)] = i, then the loop head of line 117
B_l121 ==
    /\ b.pc = "l121"
    /\ descr2index' = IndexPut(Self, vector(b.ds[b.i + 1]), b.i).d2i
    /\ b' = [b EXCEPT !.i = @ + 1,
                      !.pc = IF b.i + 1 < Len(b.ds) THEN "l119" ELSE "l122"]
    /\ r' = Overlapped
    /\ UNCHANGED <<descr_cache, descr_matrix, SVM_TRAIN_PARAMS, pc, frame, sc>>

\* line 122: self._descr_matrix = numpy.array(self._descr_matrix); the call
\* returns and the new snapshot is complete.
B_l122 ==
    /\ b.pc = "l122"
    /\ descr_matrix' = BuildFinish(Self).matrix
    /\ b' = IdleB
    /\ r' = Overlapped
    /\ UNCHANGED <<descr_cache, descr2index, SVM_TRAIN_PARAMS, pc, frame, sc>>

\* rank(pos, neg) is entered and runs lines 177-187, which use no attribute
\* of self.
R_Call(pos, neg) ==
    /\ r.pc = "idle"
    /\ \E tok \in BOOLEAN :
          LET t == RankTrain(SVM_TRAIN_PARAMS, pos, neg, tok)
          IN  /\ r' = [pc      |-> IF t.exc = "none" THEN "l204" ELSE "done",
                       pos     |-> pos,
                       neg     |-> neg,
                       exc     |-> t.exc,
                       model   |-> t.model,
                       probs   |-> <<>>,
                       ret     |-> <<>>,
                       overlap |-> b.pc # "idle",
                       snap    |-> descr_cache]
              /\ SVM_TRAIN_PARAMS' = t.shared
    /\ UNCHANGED <<descr_cache, descr_matrix, descr2index, pc, frame, b, sc>>

\* lines 194-214: self._descr_matrix is read and scored.
R_l204 ==
    /\ r.pc = "l204"
    /\ \E mok \in BOOLEAN :
          LET p == RankProbs(r.model, descr_matrix, mok)
          IN  r' = [r EXCEPT !.pc = IF p.exc = "none" THEN "l216" ELSE "done",
                             !.exc = p.exc,
                             !.probs = p.val]
    /\ UNCHANGED <<descr_cache, descr_matrix, descr2index, SVM_TRAIN_PARAMS, pc, frame, b, sc>>

\* line 216: self._descr_cache is read and zipped with the scores.
R_l216 ==
    /\ r.pc = "l216"
    /\ r' = [r EXCEPT !.pc = "done", !.ret = DictZip(descr_cache, r.probs)]
    /\ UNCHANGED <<descr_cache, descr_matrix, descr2index, SVM_TRAIN_PARAMS, pc, frame, b, sc>>

\* The caller of rank has the mapping or the exception.
R_Return ==
    /\ r.pc = "done"
    /\ r' = IdleR
    /\ UNCHANGED <<descr_cache, descr_matrix, descr2index, SVM_TRAIN_PARAMS, pc, frame, b, sc>>

NextConc ==
    \/ \E ds \in SeqsUpTo(DescrConc, MaxLen) : B_Call(ds)
    \/ B_l111
    \/ B_l114
    \/ B_l116
    \/ B_l119
    \/ B_l120
    \/ B_l121
    \/ B_l122
    \/ \E a \in RankArgsConc : R_Call(a[1], a[2])
    \/ R_l204
    \/ R_l216
    \/ R_Return

SpecConc == Init /\ [][NextConc]_vars

(***************************************************************************)
(* Properties of SpecConc                                                  *)
(***************************************************************************)
\* What rank returns for a model when the matrix and the cache it reads are
\* those of the one snapshot whose cache is c.
CorrectResult(c, model) == [d \in Range(c) |-> Score(model, vector(d))]

\* C6: a rank call that no build_index call overlapped returns the mapping
\* of one snapshot, the one it was entered with: every descriptor of that
\* cache is scored from its own row of the matrix. (That a rank call
\* interleaved with build_index can return a mapping that is right for
\* neither the snapshot before nor the one after is the state C6_Witness.)
C6_SerializedRankIsConsistent ==
    (r.pc = "done" /\ r.exc = "none" /\ ~r.overlap) =>
        r.ret = CorrectResult(r.snap, r.model)

\* A rank call entered on a complete snapshot, during which build_index ran,
\* has returned a mapping that is the result for no snapshot at all, so
\* neither for the one before nor for the one after: a descriptor is scored
\* from the row of a descriptor with another vector.
C6_Witness ==
    /\ r.pc = "done"
    /\ r.exc = "none"
    /\ r.overlap
    /\ Len(r.snap) > 0
    /\ r.ret # CorrectResult(r.snap, r.model)
    /\ \E d \in DOMAIN r.ret : r.ret[d].x # vector(d)
    /\ \A c \in SeqsUpTo(DescrConc, MaxLen) : r.ret # CorrectResult(c, r.model)

(***************************************************************************)
(* SpecPlatt: line 214 for one index item, for finite margin, rho, probA   *)
(* and probB as libSVM may return them                                     *)
(***************************************************************************)
\* The finite values the margin and the model's parameters are drawn from.
PlattInputs == {FNum(-FMax), FNum(-One), FNum(0), FNum(One), FNum(FMax)}

InitPlatt ==
    /\ descr_cache = InitSelf.cache
    /\ descr_matrix = InitSelf.matrix
    /\ descr2index = InitSelf.d2i
    /\ SVM_TRAIN_PARAMS = SvmTrainParamsLiteral
    /\ pc = "idle"
    /\ frame = NoFrame
    /\ b = IdleB
    /\ r = IdleR
    /\ \E m \in PlattInputs, rho \in PlattInputs, pa \in PlattInputs, pb \in PlattInputs :
          sc = [IdleSc EXCEPT !.pc = "in", !.margin = m, !.rho = rho,
                              !.probA = pa, !.probB = pb]

\* line 214
PlattScale ==
    /\ sc.pc = "in"
    /\ LET t == PlattArg(sc.margin, sc.rho, sc.probA, sc.probB)
       IN  \E e \in FExpSet(t) :
              sc' = [sc EXCEPT !.pc = "out", !.t = t, !.e = e, !.p = PlattProb(e)]
    /\ UNCHANGED <<descr_cache, descr_matrix, descr2index, SVM_TRAIN_PARAMS, pc, frame, b, r>>

SpecPlatt == InitPlatt /\ [][PlattScale]_vars

(***************************************************************************)
(* Properties of SpecPlatt                                                 *)
(***************************************************************************)
\* C9 as stated: for finite margin and parameters the score lies strictly
\* between 0 and 1 and is neither NaN nor infinite.
C9_Original ==
    sc.pc = "out" =>
        /\ sc.p.c = "num"
        /\ 0 < sc.p.v
        /\ sc.p.v < One

\* C9 amended: the score is 1/(1 + exp((m - rho)*probA + probB)) computed in
\* floating point; for finite margin and parameters whose exponent argument
\* does not come out as NaN it is a number in the closed interval [0, 1]:
\* exactly 0 when the exponential overflows to infinity, exactly 1 when the
\* exponential is zero, and strictly inside when the exponential is a
\* finite number from 1.0 up. If the argument is NaN so is the score.
C9_ScoreInClosedUnitInterval ==
    sc.pc = "out" =>
        /\ sc.t = PlattArg(sc.margin, sc.rho, sc.probA, sc.probB)
        /\ sc.t.c = "nan" <=> sc.p.c = "nan"
        /\ sc.t.c # "nan" =>
              /\ sc.p.c = "num"
              /\ 0 <= sc.p.v
              /\ sc.p.v <= One
              /\ sc.e.c = "inf" => sc.p.v = 0
              /\ sc.e = FNum(0) => sc.p.v = One
              /\ (sc.e.c = "num" /\ sc.e.v >= One) => (0 < sc.p.v /\ sc.p.v < One)

\* A score that is exactly 0: finite margin and parameters, an exponential
\* that overflowed.
C9_Witness ==
    /\ sc.pc = "out"
    /\ sc.t.c = "num"
    /\ sc.e.c = "inf"
    /\ sc.p = FNum(0)

====
